---- MODULE Spec2Model ----
(***************************************************************************)
(* pcap-async: a PacketStream (src/src/stream.rs) pulled by one consumer,  *)
(* its bridge unit (PacketFuture) running one dispatch cycle at a time on  *)
(* a background lane, and the two dispatch strategies of                   *)
(* src/src/packet_iterator.rs (dispatch_ex: pcap_next_ex, one record per   *)
(* native call; dispatch: pcap_dispatch with the dispatch_callback         *)
(* trampoline) over one capture session handle.                            *)
(*                                                                         *)
(* Records delivered by the native source are numbered 1, 2, 3, ... in     *)
(* capture order; a Packet is represented by the number of its record.     *)
(***************************************************************************)
EXTENDS Integers, Sequences, FiniteSets

\* ---------------------------------------------------------------- bounds
MaxRecords == 3     \* records the native source can deliver in one run
MaxBatch == 2       \* largest configured max_packets_read
MaxErrors == 1      \* hard failures the native source can report in one run
MaxEnds == 2        \* end-of-sequence signals after which the consumer stops pulling
CycleCap == 2       \* saturation of the cyclesAfterIntr history counter
MaxCfg == 2         \* largest snaplen, timeout and buffer size given to PacketStream::new
MaxCap == 2         \* largest captured and original length of a native record
MaxYield == 3       \* calls of PacketIterator::next in one run

VARIABLES
    live_capture,      \* Handle::is_live_capture(), fixed at construction
    max_packets_read,  \* Config::max_packets_read(), fixed at construction
    mode,              \* dispatch strategy the bridge runs: "ex" or "cb"
    fileLen,           \* records in the replayed file (unused when live)
    interrupted,       \* the Handle's interrupt flag
    breakloop,         \* the native session's break-loop flag
    delivered,         \* records the native source has delivered so far
    errors,            \* hard failures the native source has reported so far
    pending,           \* PacketStream.pending: "None" or "Some"
    pc,                \* the bridge unit's dispatch cycle: idle, check, call, done
    packets,           \* the cycle's accumulator
    result,            \* the outcome the finished cycle returned
    orphans,           \* cycles still running whose bridge unit was replaced
    out,               \* items the consumer has received, in order
    units,             \* history: bridge units (PacketIterator: cycles) started so far
    nativeCalled,      \* history: some native fetch has been issued
    polled,            \* history: poll_next has been called
    intrBeforePull,    \* history: interrupt() was called before the first pull
    cyclesAfterIntr,   \* history: cycles started after the flag was set and before the end
    dropped,           \* history: some delivered record was not appended
    exit,              \* history: how the finished cycle left its loop
    discarded,         \* history: records held by a cycle that returned on a failure
    capacity,          \* the allocated capacity of the cycle's accumulator
    reallocated,       \* history: some append had to grow an accumulator
    config,            \* the Config given to PacketStream::new
    ctor,              \* PacketStream::new: the handle calls it issued and its result
    native_rec,        \* the native record handed to the packet decoding
    decoded,           \* what the packet decoding did with native_rec
    is_complete,       \* PacketIterator.is_complete
    yielded            \* what PacketIterator::next has returned, in order

vars == << live_capture, max_packets_read, mode, fileLen, interrupted, breakloop,
           delivered, errors, pending, pc, packets, result, orphans, out, units,
           nativeCalled, polled, intrBeforePull, cyclesAfterIntr, dropped,
           exit, discarded, capacity, reallocated, config, ctor, native_rec,
           decoded, is_complete, yielded >>

\* What the stream's own steps leave alone: the construction, the decoding of
\* a single record and the PacketIterator.
aux == << config, ctor, native_rec, decoded, is_complete, yielded >>

\* ------------------------------------------------- PacketIteratorItem
Complete == [kind |-> "Complete", pkts |-> << >>]
NoPackets == [kind |-> "NoPackets", pkts |-> << >>]
Packets(p) == [kind |-> "Packets", pkts |-> p]
Err == [kind |-> "Err", pkts |-> << >>]

\* ------------------------------------------------- Stream items
EndItem == [kind |-> "End", pkts |-> << >>]
ErrItem == [kind |-> "Err", pkts |-> << >>]
BatchItem(p) == [kind |-> "Batch", pkts |-> p]

Min(a, b) == IF a < b THEN a ELSE b

\* The pointers the native layer hands over with one record.
Validity == {"ok", "nullhdr", "nulldata", "bothnull"}

\* ------------------------------------------------- dispatch_ex (record-at-a-time)
\* packet_iterator.rs:69, the loop condition `while !pcap_handle.interrupted()`.
ex_while_nocheck(intr) == TRUE
ex_while(intr) == ~intr

\* packet_iterator.rs:81-88, the arm for -2.
ex_breakloop_arm_drop(pkts) == Complete
ex_breakloop_arm(pkts) == IF pkts = << >> THEN Complete ELSE Packets(pkts)

\* packet_iterator.rs:108, a record is appended only when neither pointer is null.
ex_record_ok(v) == v = "ok"

\* packet_iterator.rs:120, packets.push(record).
ex_push_front(pkts, rec) == << rec >> \o pkts
ex_push(pkts, rec) == Append(pkts, rec)

\* packet_iterator.rs:122, the ceiling check made after the append.
ex_ceiling_strict(len, max) == len > max
ex_ceiling(len, max) == len >= max

\* packet_iterator.rs:138-144 and 207-213, the outcome once the flag is observed.
interrupt_outcome(pkts) == IF pkts = << >> THEN Complete ELSE Packets(pkts)

\* packet_iterator.rs:89-93 and 130-134, the arms for -1 and for any other
\* negative code: the accumulator is dropped with the frame.
ex_failure_arm_partial(pkts) == IF pkts = << >> THEN Err ELSE Packets(pkts)
ex_failure_arm(pkts) == Err

\* packet_iterator.rs:94-106, the arm for 0.
ex_nodata_arm_spin(pkts, live) ==
    IF pkts = << >>
    THEN [done |-> FALSE, result |-> NoPackets, packets |-> pkts, brk |-> FALSE]
    ELSE [done |-> TRUE, result |-> Packets(pkts), packets |-> pkts, brk |-> ~live]
ex_nodata_arm(pkts, live) ==
    IF pkts = << >>
    THEN [done |-> TRUE, result |-> NoPackets, packets |-> pkts, brk |-> FALSE]
    ELSE [done |-> TRUE, result |-> Packets(pkts), packets |-> pkts, brk |-> ~live]

\* packet_iterator.rs:80-135: what one return code of pcap_next_ex does to the
\* cycle.  done: the cycle returns `result`; otherwise the loop goes round
\* again with `packets`.  brk: pcap_breakloop was called.
dispatch_ex_match(ret, v, pkts, rec, live, max) ==
    LET appended == IF ex_record_ok(v) THEN ex_push(pkts, rec) ELSE pkts
    IN  CASE ret = -2 ->
               [done |-> TRUE, result |-> ex_breakloop_arm(pkts), packets |-> pkts, brk |-> FALSE]
          [] ret = -1 ->
               [done |-> TRUE, result |-> ex_failure_arm(pkts), packets |-> pkts, brk |-> FALSE]
          [] ret = 0 ->
               ex_nodata_arm(pkts, live)
          [] ret > 0 ->
               IF ex_ceiling(Len(appended), max)
               THEN [done |-> TRUE, result |-> Packets(appended), packets |-> appended, brk |-> FALSE]
               ELSE [done |-> FALSE, result |-> NoPackets, packets |-> appended, brk |-> FALSE]
          [] OTHER ->
               [done |-> TRUE, result |-> ex_failure_arm(pkts), packets |-> pkts, brk |-> FALSE]

\* ------------------------------------------------- dispatch (callback-batch)
\* packet_iterator.rs:154, the loop condition of dispatch.
cb_while(intr) == ~intr

\* packet_iterator.rs:13-33, the trampoline for one delivered record.  `user`
\* is the accumulator and never null.  With both pointers null the record is
\* dropped.  With exactly one pointer null the else branch dereferences or
\* copies from a null pointer: undefined behaviour, whose outcome `ub` is one
\* of "push" (a packet of garbage is appended), "drop" and "crash".
dispatch_callback(pkts, rec, v, ub) ==
    CASE v = "ok" -> Append(pkts, rec)
      [] v = "bothnull" -> pkts
      [] OTHER -> IF ub = "push" THEN Append(pkts, rec) ELSE pkts

\* The trampoline applied to the records first..last of one bulk call.
RECURSIVE callback_all(_, _, _, _, _)
callback_all(pkts, first, last, vs, ub) ==
    IF first > last THEN pkts
    ELSE callback_all(dispatch_callback(pkts, first, vs[first], ub), first + 1, last, vs, ub)

\* packet_iterator.rs:191, the ceiling check made after a bulk call.
cb_ceiling(len, max) == len >= max

\* packet_iterator.rs:166-204: what one return code of pcap_dispatch does to
\* the cycle; pkts already holds what the trampoline appended during the call.
dispatch_match(ret, pkts, live, max) ==
    CASE ret = -2 ->
           [done |-> TRUE, result |-> Complete, packets |-> pkts, brk |-> FALSE]
      [] ret = -1 ->
           [done |-> TRUE, result |-> Err, packets |-> pkts, brk |-> FALSE]
      [] ret = 0 ->
           IF pkts = << >>
           THEN [done |-> TRUE, result |-> NoPackets, packets |-> pkts, brk |-> FALSE]
           ELSE [done |-> TRUE, result |-> Packets(pkts), packets |-> pkts, brk |-> ~live]
      [] ret > 0 ->
           IF cb_ceiling(Len(pkts), max)
           THEN [done |-> TRUE, result |-> Packets(pkts), packets |-> pkts, brk |-> FALSE]
           ELSE [done |-> FALSE, result |-> NoPackets, packets |-> pkts, brk |-> FALSE]
      [] OTHER ->
           [done |-> TRUE, result |-> Err, packets |-> pkts, brk |-> FALSE]

\* ------------------------------------------------- the accumulator's storage
\* packet_iterator.rs:65 and 152, Vec::with_capacity(2 * max_packets_read).
with_capacity_single(max) == max
with_capacity(max) == 2 * max

\* Vec::push on a full vector: the capacity doubles (4 at least) until the
\* vector holds len elements; a vector with room keeps its capacity.
RECURSIVE vec_grow(_, _)
vec_grow(cap, len) ==
    IF len <= cap THEN cap
    ELSE vec_grow(IF 2 * cap > 4 THEN 2 * cap ELSE 4, len)

\* ------------------------------------------------- the native source
\* Records the source can still deliver.
Remaining == IF live_capture THEN MaxRecords - delivered ELSE fileLen - delivered

\* Return codes pcap_next_ex can produce in the current state: -2 once the
\* break-loop flag is set (the call clears it) and at the end of a file;
\* 1 with one record; 0 on a live read timeout; -1 and other negative codes
\* on failure.
NextExCodes ==
    IF breakloop THEN {-2}
    ELSE (IF Remaining > 0 THEN {1} ELSE {})
         \cup (IF live_capture THEN {0} ELSE {})
         \cup (IF ~live_capture /\ Remaining = 0 THEN {-2} ELSE {})
         \cup (IF errors < MaxErrors THEN {-1, -3} ELSE {})

\* Return codes pcap_dispatch can produce with per-call ceiling cnt (cnt = 0
\* asks for every buffered record): -2 once the break-loop flag is set, before
\* any record is processed; the number of records processed; 0 on a live read
\* timeout and at the end of a file; -1 and other negative codes on failure.
DispatchCodes(cnt) ==
    IF breakloop THEN {-2}
    ELSE (1 .. (IF cnt = 0 THEN Remaining ELSE Min(cnt, Remaining)))
         \cup (IF live_capture \/ Remaining = 0 THEN {0} ELSE {})
         \cup (IF errors < MaxErrors THEN {-1, -3} ELSE {})

\* ------------------------------------------------- history helpers
\* The four-way classification of a native return code
\* (packet_iterator.rs:80-135, 166-204).
Classify(ret) ==
    CASE ret = -2 -> "break"
      [] ret = 0 -> "nodata"
      [] ret > 0 -> "data"
      [] OTHER -> "fail"

Range(q) == {q[i] : i \in 1..Len(q)}

Ends(o) == Cardinality({i \in 1..Len(o) : o[i].kind = "End"})
Ended == \E i \in 1..Len(out) : out[i].kind = "End"

RECURSIVE Concat(_)
Concat(o) == IF o = << >> THEN << >> ELSE o[1].pkts \o Concat(Tail(o))

\* ------------------------------------------------- PacketStream::new
\* stream.rs:37-50, the handle calls PacketStream::new makes, in order, each
\* with the Config value it passes.  Nothing is called on a file-replay handle.
new_plan_swapped(live, cfg) ==
    IF ~live THEN << >>
    ELSE << [fn |-> "set_snaplen", arg |-> cfg.snaplen],
            [fn |-> "set_promiscuous", arg |-> 0],
            [fn |-> "set_non_block", arg |-> 0],
            [fn |-> "set_timeout", arg |-> cfg.timeout],
            [fn |-> "set_buffer_size", arg |-> cfg.buffer_size],
            [fn |-> "activate", arg |-> 0] >>
         \o (IF cfg.bpf # "none"
             THEN << [fn |-> "compile_bpf", arg |-> 0], [fn |-> "set_bpf", arg |-> 0] >>
             ELSE << >>)
new_plan_filter_first(live, cfg) ==
    IF ~live THEN << >>
    ELSE (IF cfg.bpf # "none"
          THEN << [fn |-> "compile_bpf", arg |-> 0], [fn |-> "set_bpf", arg |-> 0] >>
          ELSE << >>)
         \o << [fn |-> "set_snaplen", arg |-> cfg.snaplen],
               [fn |-> "set_non_block", arg |-> 0],
               [fn |-> "set_promiscuous", arg |-> 0],
               [fn |-> "set_timeout", arg |-> cfg.timeout],
               [fn |-> "set_buffer_size", arg |-> cfg.buffer_size],
               [fn |-> "activate", arg |-> 0] >>
new_plan(live, cfg) ==
    IF ~live THEN << >>
    ELSE << [fn |-> "set_snaplen", arg |-> cfg.snaplen],
            [fn |-> "set_non_block", arg |-> 0],
            [fn |-> "set_promiscuous", arg |-> 0],
            [fn |-> "set_timeout", arg |-> cfg.timeout],
            [fn |-> "set_buffer_size", arg |-> cfg.buffer_size],
            [fn |-> "activate", arg |-> 0] >>
         \o (IF cfg.bpf # "none"
             THEN << [fn |-> "compile_bpf", arg |-> 0], [fn |-> "set_bpf", arg |-> 0] >>
             ELSE << >>)

\* The `?` after every call: the calls of plan actually issued when the calls
\* named in fails return Err.  The first failing call is the last one issued.
RECURSIVE new_issue(_, _)
new_issue(plan, fails) ==
    IF plan = << >> THEN << >>
    ELSE IF plan[1].fn \in fails THEN << plan[1] >>
    ELSE << plan[1] >> \o new_issue(Tail(plan), fails)

\* stream.rs:34-57, PacketStream::new as a whole.  err names the call whose
\* error is returned; activated tells whether Handle::activate succeeded.
stream_new(live, cfg, fails) ==
    LET issued == new_issue(new_plan(live, cfg), fails)
        failed == issued # << >> /\ issued[Len(issued)].fn \in fails
    IN  [built |-> IF failed THEN "failed" ELSE "ok",
         calls |-> issued,
         fails |-> fails,
         err |-> IF failed THEN issued[Len(issued)].fn ELSE "none",
         activated |-> \E i \in 1..Len(issued) :
                          issued[i].fn = "activate" /\ "activate" \notin fails]

\* The record and the decoding result before any record was decoded.
NoRecord == [caplen |-> 0, len |-> 0, sec |-> 0, usec |-> 0, v |-> "ok", via |-> "none"]
NoPacket == [state |-> "none", ts |-> 0, captured_length |-> 0, original_length |-> 0,
             data |-> << >>]

\* ------------------------------------------------- initial state
\* PacketStream::new succeeded on a handle: pending is None (stream.rs:52-56),
\* nothing has been polled, the flags are clear.
Init ==
    /\ live_capture \in BOOLEAN
    /\ max_packets_read \in 0..MaxBatch
    /\ mode \in {"ex", "cb"}
    /\ fileLen \in 0..MaxRecords
    /\ (live_capture => fileLen = 0)
    /\ interrupted = FALSE
    /\ breakloop = FALSE
    /\ delivered = 0
    /\ errors = 0
    /\ pending = "None"
    /\ pc = "idle"
    /\ packets = << >>
    /\ result = Complete
    /\ orphans = 0
    /\ out = << >>
    /\ units = 0
    /\ nativeCalled = FALSE
    /\ polled = FALSE
    /\ intrBeforePull = FALSE
    /\ cyclesAfterIntr = 0
    /\ dropped = FALSE
    /\ exit = "none"
    /\ discarded = {}
    /\ capacity = 0
    /\ reallocated = FALSE
    /\ config = [snaplen |-> 1, timeout |-> 1, buffer_size |-> 1, bpf |-> "none"]
    /\ ctor = stream_new(live_capture, config, {})
    /\ native_rec = NoRecord
    /\ decoded = NoPacket
    /\ is_complete = FALSE
    /\ yielded = << >>

\* ------------------------------------------------- Handle::interrupt
\* Sets the shared flag and calls the native stop-loop primitive.
Interrupt ==
    /\ pc # "crashed"
    /\ interrupted' = TRUE
    /\ breakloop' = TRUE
    /\ intrBeforePull' = (intrBeforePull \/ ~polled)
    /\ UNCHANGED << live_capture, max_packets_read, mode, fileLen, delivered, errors,
                    pending, pc, packets, result, orphans, out, units, nativeCalled,
                    polled, cyclesAfterIntr, dropped, exit, discarded, capacity,
                    reallocated, aux >>

\* ------------------------------------------------- PacketStream::poll_next
\* stream.rs:70, a bridge unit is created only when there is none.
poll_needs_unit_always(p) == TRUE
poll_needs_unit(p) == p = "None"

\* PacketFuture's resolution of a finished cycle: Complete -> Ok(None),
\* Packets -> Ok(Some(batch)), Err -> Err.  NoPackets does not resolve the
\* unit: it stays outstanding and runs another cycle on its next poll.
bridge_resolves(r) == r.kind # "NoPackets"
bridge_output(r) ==
    CASE r.kind = "Complete" -> [kind |-> "OkNone", pkts |-> << >>]
      [] r.kind = "Err" -> [kind |-> "Err", pkts |-> << >>]
      [] OTHER -> [kind |-> "OkSome", pkts |-> r.pkts]

\* stream.rs:77-87, the item poll_next hands to the consumer.
poll_next_item(f) ==
    CASE f.kind = "Err" -> ErrItem
      [] f.kind = "OkNone" -> EndItem
      [] OTHER -> BatchItem(f.pkts)

\* One call of poll_next (stream.rs:63-89) with the PacketFuture poll it makes.
PollNext ==
    /\ pc # "crashed"
    /\ Ends(out) < MaxEnds
    /\ polled' = TRUE
    /\ LET fresh == poll_needs_unit(pending)
           \* a unit that is replaced while its cycle runs leaves the cycle
           \* running on the background lane
           abandoned == fresh /\ pending = "Some" /\ pc \in {"check", "call"}
           taskpc == IF fresh THEN "idle" ELSE pc
       IN  /\ units' = IF fresh THEN units + 1 ELSE units
           /\ orphans' = IF abandoned THEN orphans + 1 ELSE orphans
           /\ CASE taskpc = "idle" ->
                     \* no cycle outstanding: schedule one, return Pending
                     /\ pc' = "check"
                     /\ packets' = << >>
                     /\ capacity' = with_capacity(max_packets_read)
                     /\ pending' = "Some"
                     /\ cyclesAfterIntr' =
                            IF interrupted /\ ~Ended
                            THEN Min(cyclesAfterIntr + 1, CycleCap)
                            ELSE cyclesAfterIntr
                     /\ UNCHANGED << result, out >>
                [] taskpc = "done" /\ bridge_resolves(result) ->
                     \* futures::ready! passes, pending is cleared (stream.rs:76)
                     /\ pc' = "idle"
                     /\ pending' = "None"
                     /\ out' = Append(out, poll_next_item(bridge_output(result)))
                     /\ UNCHANGED << packets, capacity, result, cyclesAfterIntr >>
                [] taskpc = "done" /\ ~bridge_resolves(result) ->
                     /\ pc' = "idle"
                     /\ pending' = "Some"
                     /\ UNCHANGED << packets, capacity, result, out, cyclesAfterIntr >>
                [] OTHER ->
                     \* the cycle is still running: Pending, same unit
                     /\ pending' = "Some"
                     /\ UNCHANGED << pc, packets, capacity, result, out,
                                     cyclesAfterIntr >>
    /\ UNCHANGED << live_capture, max_packets_read, mode, fileLen, interrupted,
                    breakloop, delivered, errors, nativeCalled, intrBeforePull, dropped,
                    exit, discarded, reallocated, aux >>

\* ------------------------------------------------- the dispatch cycle
\* The loop head of dispatch_ex (packet_iterator.rs:69, 138-144) and of
\* dispatch (packet_iterator.rs:154, 207-213).
LoopHead ==
    /\ pc = "check"
    /\ LET go == IF mode = "ex" THEN ex_while(interrupted) ELSE cb_while(interrupted)
       IN  IF go
           THEN /\ pc' = "call"
                /\ UNCHANGED << result, exit >>
           ELSE /\ pc' = "done"
                /\ result' = interrupt_outcome(packets)
                /\ exit' = "flag"
    /\ UNCHANGED << live_capture, max_packets_read, mode, fileLen, interrupted,
                    breakloop, delivered, errors, pending, packets, orphans, out,
                    units, nativeCalled, polled, intrBeforePull, cyclesAfterIntr,
                    dropped, discarded, capacity, reallocated, aux >>

\* One pcap_next_ex call and the match on its return code
\* (packet_iterator.rs:70-135).
NextEx ==
    /\ pc = "call"
    /\ mode = "ex"
    /\ \E ret \in NextExCodes, v \in Validity :
         LET m == dispatch_ex_match(ret, v, packets, delivered + 1,
                                    live_capture, max_packets_read)
         IN  /\ (ret # 1 => v = "ok")
             /\ pc' = IF m.done THEN "done" ELSE "check"
             /\ packets' = m.packets
             /\ result' = IF m.done THEN m.result ELSE result
             /\ breakloop' = ((breakloop /\ ret # -2) \/ m.brk)
             /\ delivered' = IF ret = 1 THEN delivered + 1 ELSE delivered
             /\ errors' = IF ret \in {-1, -3} THEN errors + 1 ELSE errors
             /\ dropped' = (dropped \/ (ret = 1 /\ m.packets = packets))
             /\ exit' = IF m.done THEN Classify(ret) ELSE exit
             /\ discarded' = IF Classify(ret) = "fail"
                              THEN discarded \cup Range(m.packets) ELSE discarded
             /\ capacity' = vec_grow(capacity, Len(m.packets))
             /\ reallocated' = (reallocated \/ Len(m.packets) > capacity)
    /\ nativeCalled' = TRUE
    /\ UNCHANGED << live_capture, max_packets_read, mode, fileLen, interrupted,
                    pending, orphans, out, units, polled, intrBeforePull,
                    cyclesAfterIntr, aux >>

\* One pcap_dispatch call, the trampoline calls it makes, and the match on its
\* return code (packet_iterator.rs:155-204).
Dispatch ==
    /\ pc = "call"
    /\ mode = "cb"
    /\ \E ret \in DispatchCodes(max_packets_read), ub \in {"push", "drop", "crash"} :
         LET k == IF ret > 0 THEN ret ELSE 0
         IN  \E vs \in [delivered + 1 .. delivered + k -> Validity] :
               LET filled == callback_all(packets, delivered + 1, delivered + k, vs, ub)
                   undefined == \E i \in DOMAIN vs : vs[i] \in {"nullhdr", "nulldata"}
                   m == dispatch_match(ret, filled, live_capture, max_packets_read)
               IN  /\ (~undefined => ub = "push")
                   /\ IF undefined /\ ub = "crash"
                      THEN /\ pc' = "crashed"
                           /\ UNCHANGED << packets, result, capacity, reallocated >>
                      ELSE /\ pc' = IF m.done THEN "done" ELSE "check"
                           /\ packets' = m.packets
                           /\ result' = IF m.done THEN m.result ELSE result
                           /\ capacity' = vec_grow(capacity, Len(filled))
                           /\ reallocated' = (reallocated \/ Len(filled) > capacity)
                   /\ breakloop' = ((breakloop /\ ret # -2) \/ m.brk)
                   /\ delivered' = delivered + k
                   /\ errors' = IF ret \in {-1, -3} THEN errors + 1 ELSE errors
                   /\ dropped' = (dropped \/ Len(filled) < Len(packets) + k)
                   /\ exit' = IF m.done THEN Classify(ret) ELSE exit
                   /\ discarded' = IF Classify(ret) = "fail"
                                    THEN discarded \cup Range(m.packets) ELSE discarded
    /\ nativeCalled' = TRUE
    /\ UNCHANGED << live_capture, max_packets_read, mode, fileLen, interrupted,
                    pending, orphans, out, units, polled, intrBeforePull,
                    cyclesAfterIntr, aux >>

Next == Interrupt \/ PollNext \/ LoopHead \/ NextEx \/ Dispatch

Spec == Init /\ [][Next]_vars

\* The consumer keeps pulling and every step of a running cycle (the flag
\* check, the native call) returns.
FairSpec ==
    /\ Spec
    /\ WF_vars(PollNext)
    /\ WF_vars(LoopHead)
    /\ WF_vars(NextEx)
    /\ WF_vars(Dispatch)

\* ================================================= PacketStream::new alone
\* Everything the stream's steps use, as it is before the first poll.
stream_vars == << live_capture, max_packets_read, mode, fileLen, interrupted, breakloop,
                  delivered, errors, pending, pc, packets, result, orphans, out, units,
                  nativeCalled, polled, intrBeforePull, cyclesAfterIntr, dropped,
                  exit, discarded, capacity, reallocated >>

Unpolled ==
    /\ max_packets_read = 1
    /\ mode = "ex"
    /\ fileLen = 0
    /\ interrupted = FALSE
    /\ breakloop = FALSE
    /\ delivered = 0
    /\ errors = 0
    /\ pending = "None"
    /\ pc = "idle"
    /\ packets = << >>
    /\ result = Complete
    /\ orphans = 0
    /\ out = << >>
    /\ units = 0
    /\ nativeCalled = FALSE
    /\ polled = FALSE
    /\ intrBeforePull = FALSE
    /\ cyclesAfterIntr = 0
    /\ dropped = FALSE
    /\ exit = "none"
    /\ discarded = {}
    /\ capacity = 0
    /\ reallocated = FALSE

CallNames == {"set_snaplen", "set_non_block", "set_promiscuous", "set_timeout",
              "set_buffer_size", "activate", "compile_bpf", "set_bpf"}

\* A handle and a Config, PacketStream::new not yet called.
NewInit ==
    /\ Unpolled
    /\ live_capture \in BOOLEAN
    /\ config \in [snaplen : 1..MaxCfg, timeout : 1..MaxCfg, buffer_size : 1..MaxCfg,
                   bpf : {"none", "valid", "invalid"}]
    /\ ctor = [built |-> "new", calls |-> << >>, fails |-> {}, err |-> "none",
               activated |-> FALSE]
    /\ native_rec = NoRecord
    /\ decoded = NoPacket
    /\ is_complete = FALSE
    /\ yielded = << >>

\* PacketStream::new (stream.rs:34-57).  Any handle call may fail; compiling
\* an invalid filter expression does fail.
New ==
    /\ ctor.built = "new"
    /\ \E fails \in SUBSET CallNames :
         /\ (config.bpf = "invalid" => "compile_bpf" \in fails)
         /\ ctor' = stream_new(live_capture, config, fails)
    /\ UNCHANGED << stream_vars, config, native_rec, decoded, is_complete, yielded >>

NewNext == New

NewSpec == NewInit /\ [][NewNext]_vars

\* ================================================= decoding one record
\* packet_iterator.rs:23-25 and 112-114, the timestamp in microseconds.
decode_ts(r) == r.sec * 1000000 + r.usec

\* packet_iterator.rs:26 and 115, the length of the owned buffer.
decode_length_original(r) == r.len
decode_length(r) == r.caplen

\* packet_iterator.rs:27-28 and 116-117: a zeroed buffer of `length` bytes
\* filled with the first `length` bytes behind the data pointer.
decode_data(buf, length) == [i \in 1..length |-> IF i <= Len(buf) THEN buf[i] ELSE 0]

\* Packet::new(ts, caplen, len, data): the value type of spec 3.
Packet_new(ts, caplen, len, data) ==
    [state |-> "pushed", ts |-> ts, captured_length |-> caplen, original_length |-> len,
     data |-> data]

\* packet_iterator.rs:21-30 and 111-119, the packet built from a header and
\* the bytes behind the data pointer.
decode_record(r, buf) ==
    Packet_new(decode_ts(r), r.caplen, r.len, decode_data(buf, decode_length(r)))

Dropped == [NoPacket EXCEPT !.state = "dropped"]
Crashed == [NoPacket EXCEPT !.state = "crashed"]

\* packet_iterator.rs:18, the trampoline drops a record only when both of its
\* pointers are null (user, the accumulator, never is).
callback_drops(v) == v = "bothnull"

\* The bytes the native layer keeps behind a record's data pointer.
NativeBytes == [i \in 1..MaxCap |-> i]

Headers ==
    {h \in [caplen : 0..MaxCap, len : 0..MaxCap, sec : 0..1, usec : {0, 999999}] :
        h.caplen <= h.len}

\* One record handed over by the native layer, not yet decoded.
PktInit ==
    /\ Unpolled
    /\ live_capture = TRUE
    /\ config = [snaplen |-> 1, timeout |-> 1, buffer_size |-> 1, bpf |-> "none"]
    /\ ctor = stream_new(live_capture, config, {})
    /\ \E h \in Headers, v \in Validity, via \in {"ex", "cb"} :
         native_rec = [caplen |-> h.caplen, len |-> h.len, sec |-> h.sec, usec |-> h.usec,
                       v |-> v, via |-> via]
    /\ decoded = NoPacket
    /\ is_complete = FALSE
    /\ yielded = << >>

\* dispatch_ex on a positive return (packet_iterator.rs:108-121).
DecodeEx ==
    /\ decoded.state = "none"
    /\ native_rec.via = "ex"
    /\ decoded' = IF ex_record_ok(native_rec.v)
                  THEN decode_record(native_rec, NativeBytes)
                  ELSE Dropped
    /\ UNCHANGED << stream_vars, config, ctor, native_rec, is_complete, yielded >>

\* dispatch_callback (packet_iterator.rs:13-33).  With a null header the else
\* branch reads the header through the null pointer, with a null data pointer
\* it copies from it: undefined behaviour, which ends the process, appears to
\* drop the record, or builds a packet from whatever header g and bytes it
\* read.
DecodeCb ==
    /\ decoded.state = "none"
    /\ native_rec.via = "cb"
    /\ \E ub \in {"push", "drop", "crash"}, g \in Headers, junk \in {<< >>, NativeBytes} :
         decoded' =
           CASE callback_drops(native_rec.v) -> Dropped
             [] native_rec.v = "ok" -> decode_record(native_rec, NativeBytes)
             [] native_rec.v = "nulldata" /\ native_rec.caplen = 0 ->
                  decode_record(native_rec, << >>)
             [] ub = "crash" -> Crashed
             [] ub = "drop" -> Dropped
             [] native_rec.v = "nulldata" -> decode_record(native_rec, junk)
             [] OTHER -> decode_record(g, NativeBytes)
    /\ UNCHANGED << stream_vars, config, ctor, native_rec, is_complete, yielded >>

PktNext == DecodeEx \/ DecodeCb

PacketSpec == PktInit /\ [][PktNext]_vars

\* ================================================= PacketIterator alone
\* What Iterator::next returns.
IterNone == [kind |-> "None"]
IterSome(r) == [kind |-> "Some", item |-> r]

\* packet_iterator.rs:219-231, is_complete after a call of next that ran a
\* cycle with outcome r: next assigns nothing to it.
next_is_complete_latched(ic, r) == ic \/ r.kind \in {"Complete", "Err"}
next_is_complete(ic, r) == ic

\* PacketIterator::new (packet_iterator.rs:43-50) on a handle: is_complete is
\* false, nothing has been yielded; the iterator runs dispatch_ex.
IterInit ==
    /\ Init
    /\ mode = "ex"

\* Iterator::next is entered (packet_iterator.rs:219-225): None when
\* is_complete is set, otherwise a dispatch_ex cycle starts with an empty
\* accumulator (packet_iterator.rs:65).
IterCall ==
    /\ pc = "idle"
    /\ Len(yielded) < MaxYield
    /\ IF is_complete
       THEN /\ yielded' = Append(yielded, IterNone)
            /\ UNCHANGED << pc, packets, capacity, units >>
       ELSE /\ pc' = "check"
            /\ packets' = << >>
            /\ capacity' = with_capacity(max_packets_read)
            /\ units' = units + 1
            /\ UNCHANGED yielded
    /\ UNCHANGED << live_capture, max_packets_read, mode, fileLen, interrupted,
                    breakloop, delivered, errors, pending, result, orphans, out,
                    nativeCalled, polled, intrBeforePull, cyclesAfterIntr, dropped,
                    exit, discarded, reallocated, config, ctor, native_rec, decoded,
                    is_complete >>

\* The cycle returned r and next returns Some(r) (packet_iterator.rs:225-231).
IterReturn ==
    /\ pc = "done"
    /\ pc' = "idle"
    /\ yielded' = Append(yielded, IterSome(result))
    /\ is_complete' = next_is_complete(is_complete, result)
    /\ UNCHANGED << live_capture, max_packets_read, mode, fileLen, interrupted,
                    breakloop, delivered, errors, pending, packets, result, orphans,
                    out, units, nativeCalled, polled, intrBeforePull,
                    cyclesAfterIntr, dropped, exit, discarded, capacity, reallocated,
                    config, ctor,
                    native_rec, decoded >>

IterNext == Interrupt \/ IterCall \/ LoopHead \/ NextEx \/ IterReturn

IterSpec == IterInit /\ [][IterNext]_vars

\* ================================================================ claims
Running == IF pc \in {"check", "call"} THEN 1 ELSE 0
Batches(o) == {i \in 1..Len(o) : o[i].kind = "Batch"}

\* C1: at most one dispatch cycle of a stream executes at any time; poll_next
\* creates a bridge unit only when pending is None, a poll that finds the
\* unit's cycle still running keeps that unit, and pending is cleared only
\* when the unit has resolved.
AtMostOneUnit ==
    /\ [](orphans + Running <= 1)
    /\ [][ /\ (units' # units => pending = "None")
           /\ (pending = "Some" /\ Running = 1 /\ polled' /\ pc' = pc
                 => pending' = "Some" /\ units' = units)
           /\ (pending = "Some" /\ pending' = "None"
                 => pc = "done" /\ bridge_resolves(result)) ]_vars

\* A second unit is in flight after the first one resolved.
AtMostOneUnitWitness == units >= 2 /\ pending = "Some" /\ pc = "call" /\ Len(out) >= 1

\* C2: once end-of-sequence has been signalled, a later demand starts no new
\* bridge unit and no new dispatch cycle, and emits nothing but
\* end-of-sequence.
EndedIsAbsorbing ==
    [][Ended => /\ units' = units
                /\ pc' = pc
                /\ (out' = out \/ out' = Append(out, EndItem))]_vars

\* C3: after an error item the stream has ended: only end-of-sequence follows
\* it, never a batch or a second error.
ErrorEndsStream ==
    \A i \in 1..Len(out) :
        out[i].kind = "Err" => \A j \in (i + 1)..Len(out) : out[j].kind = "End"

\* C4: replaying a file of fileLen valid records with a ceiling of at least 1,
\* no native failure and no interrupt, the stream emits every record exactly
\* once, in batches, emits no error, and then signals end-of-sequence.
FileReplayPre ==
    /\ mode = "ex"
    /\ ~live_capture
    /\ max_packets_read >= 1
    /\ errors = 0
    /\ ~interrupted
    /\ ~dropped

FileReplayDeliversAll ==
    /\ [](FileReplayPre =>
            /\ \A i \in 1..Len(out) : out[i].kind # "Err"
            /\ Len(Concat(out)) <= fileLen
            /\ (Ended => Concat(out) = [i \in 1..fileLen |-> i]))
    /\ (FileReplayPre ~> (Ended \/ ~FileReplayPre))

\* The whole file came out in more than one batch and the stream ended.
FileReplayDeliversAllWitness ==
    /\ FileReplayPre
    /\ Ended
    /\ fileLen = MaxRecords
    /\ Cardinality(Batches(out)) >= 2

\* C5 as stated: every batch dispatch_ex returns is no longer than
\* max_packets_read, and has length exactly 1 when max_packets_read is 1.
ExBatchWithinCeiling ==
    /\ (mode = "ex" /\ pc = "done" /\ result.kind = "Packets"
          => /\ Len(result.pkts) <= max_packets_read
             /\ (max_packets_read = 1 => Len(result.pkts) = 1))
    /\ (mode = "ex" => \A i \in Batches(out) : Len(out[i].pkts) <= max_packets_read)

\* C5 amended: for max_packets_read >= 1, every batch dispatch_ex returns is no
\* longer than max_packets_read, and has length exactly 1 when
\* max_packets_read is 1.
ExBatchWithinPositiveCeiling == max_packets_read >= 1 => ExBatchWithinCeiling

\* dispatch_ex returned a batch that is exactly as long as a ceiling above 1.
ExBatchWithinPositiveCeilingWitness ==
    /\ mode = "ex"
    /\ pc = "done"
    /\ result.kind = "Packets"
    /\ max_packets_read = MaxBatch
    /\ Len(result.pkts) = max_packets_read

\* C6: with a ceiling of at least 1 (each bulk call delivers between 1 and
\* max_packets_read records), every batch dispatch returns is no longer than
\* max_packets_read.
CbBatchWithinCeiling ==
    mode = "cb" /\ max_packets_read >= 1 /\ pc = "done" /\ result.kind = "Packets"
        => Len(result.pkts) <= max_packets_read

\* C7: every Packets outcome of a cycle carries a non-empty batch, and the
\* stream never emits an empty batch.
BatchNeverEmpty ==
    /\ (pc = "done" /\ result.kind = "Packets" => result.pkts # << >>)
    /\ \A i \in Batches(out) : out[i].pkts # << >>

\* C8: the concatenation of the emitted batches, in emission order, is the
\* delivered records in capture order with none repeated.
CaptureOrderPreserved ==
    LET c == Concat(out)
    IN  /\ \A i \in 1..Len(c) : c[i] \in 1..delivered
        /\ \A i, j \in 1..Len(c) : i < j => c[i] < c[j]

\* Several batches were emitted and a record in between was dropped.
CaptureOrderPreservedWitness ==
    /\ Cardinality(Batches(out)) >= 2
    /\ Len(Concat(out)) >= 2
    /\ dropped
    /\ \E i \in Batches(out) : Len(out[i].pkts) >= 2

\* C9: when interrupt() is called before the first pull, no native fetch is
\* ever issued, every cycle returns Complete with an empty accumulator, and
\* the first pull resolves as end-of-sequence with no packet.
InterruptBeforeFirstPull ==
    /\ [](intrBeforePull =>
            /\ ~nativeCalled
            /\ packets = << >>
            /\ (pc = "done" => result = Complete)
            /\ \A i \in 1..Len(out) : out[i] = EndItem)
    /\ (intrBeforePull ~> (Len(out) >= 1 /\ out[1] = EndItem))

\* The first pull after an early interrupt has resolved.
InterruptBeforeFirstPullWitness == intrBeforePull /\ out = << EndItem >>

\* C10: once the flag is set, at most one cycle is started before the stream
\* signals end-of-sequence, and it does signal end-of-sequence.
InterruptEndsStream ==
    /\ [](mode = "ex" /\ ~Ended => cyclesAfterIntr <= 1)
    /\ ((mode = "ex" /\ interrupted) ~> Ended)

\* The flag was set while a cycle held packets; they were emitted and the
\* stream ended after one more cycle.
InterruptEndsStreamWitness ==
    /\ mode = "ex"
    /\ interrupted
    /\ ~intrBeforePull
    /\ Ended
    /\ cyclesAfterIntr = 1
    /\ Remaining > 0
    /\ Batches(out) # {}

\* C11: when a cycle observes the interrupt (the flag at the loop head, or -2
\* from the native call after interrupt() asked for the loop stop) it returns
\* Packets with exactly its accumulator when that is non-empty, Complete only
\* when it is empty, and never Err.
InterruptKeepsAccumulator ==
    pc = "done" /\ interrupted /\ exit \in {"flag", "break"}
        => result = (IF packets = << >> THEN Complete ELSE Packets(packets))

\* C14: from the same accumulator, flag, session kind and ceiling, the same
\* native classification gives the same outcome, the same batch and the same
\* loop-stop request in dispatch_ex and in dispatch.
StrategiesAgree ==
    pc = "call" =>
        /\ \A ret \in {-3, -2, -1, 0} :
               dispatch_ex_match(ret, "ok", packets, delivered + 1,
                                 live_capture, max_packets_read)
                 = dispatch_match(ret, packets, live_capture, max_packets_read)
        /\ \A v \in {"ok", "bothnull"} :
               dispatch_ex_match(1, v, packets, delivered + 1,
                                 live_capture, max_packets_read)
                 = dispatch_match(1, dispatch_callback(packets, delivered + 1, v, "push"),
                                  live_capture, max_packets_read)

\* C16: a cycle that sees a hard failure returns Err, and the records it had
\* accumulated are in no emitted batch and in no later accumulator.
FailureDiscardsAccumulator ==
    /\ (pc = "done" /\ exit = "fail" => result = Err)
    /\ discarded \cap Range(Concat(out)) = {}
    /\ (pc \in {"check", "call"} => discarded \cap Range(packets) = {})

\* Records were discarded by a failure and a batch was emitted after the error.
FailureDiscardsAccumulatorWitness ==
    /\ discarded # {}
    /\ \E i, j \in 1..Len(out) : i < j /\ out[i].kind = "Err" /\ out[j].kind = "Batch"

\* C17: on a file-replay session a cycle that ends on the native "no data"
\* result has requested the native loop stop, whether or not it held packets.
NonLiveNoDataStopsLoop ==
    pc = "done" /\ exit = "nodata" /\ ~live_capture => breakloop

\* C19 as stated: no cycle returns NoPackets.
CycleNeverReturnsNoPackets == pc = "done" => result.kind # "NoPackets"

\* C19 amended: the loop goes round again only after a positive delivery; on
\* "no data" with an empty accumulator the cycle returns NoPackets, and the
\* bridge unit absorbs that outcome: it stays outstanding and nothing is
\* emitted to the consumer.
NoPacketsReturnedAndAbsorbed ==
    /\ [](pc = "done" /\ exit = "nodata" /\ packets = << >> => result = NoPackets)
    /\ [][ /\ (pc = "call" /\ pc' = "check" => delivered' > delivered)
           /\ (pc = "done" /\ result.kind = "NoPackets" /\ pc' = "idle"
                 => out' = out /\ pending' = "Some") ]_vars

\* A cycle returned NoPackets and the bridge unit took it without resolving.
NoPacketsReturnedAndAbsorbedWitness ==
    /\ result = NoPackets
    /\ exit = "nodata"
    /\ pc = "idle"
    /\ pending = "Some"

\* The names of the handle calls issued, in order.
CallSeq == [i \in 1..Len(ctor.calls) |-> ctor.calls[i].fn]
FilterFailed == ctor.built = "failed" /\ ctor.err = "compile_bpf"
NothingProduced == pending = "None" /\ out = << >> /\ delivered = 0 /\ ~nativeCalled

\* C12 as stated: when construction on a live handle fails on the filter
\* compile, no stream and no packet exist and the session has not been
\* activated.
FilterFailureLeavesUnactivated ==
    live_capture /\ FilterFailed => NothingProduced /\ ~ctor.activated

\* C12 amended: when construction on a live handle fails on the filter
\* compile, the error is returned, no stream and no packet exist, the filter
\* is not applied, and the session has already been activated.
FilterFailureAfterActivation ==
    live_capture /\ FilterFailed =>
        /\ NothingProduced
        /\ ctor.activated
        /\ CallSeq[Len(CallSeq)] = "compile_bpf"
        /\ \A i \in 1..Len(CallSeq) : CallSeq[i] # "set_bpf"

\* Construction failed on an invalid filter expression.
FilterFailureAfterActivationWitness ==
    live_capture /\ FilterFailed /\ config.bpf = "invalid" /\ Len(ctor.calls) = 7

\* C13: the order in which a live session is configured.
ExpectedOrder ==
    << "set_snaplen", "set_non_block", "set_promiscuous", "set_timeout",
       "set_buffer_size", "activate", "compile_bpf", "set_bpf" >>
ExpectedLength == IF config.bpf = "none" THEN 6 ELSE 8

\* On a live handle the calls issued are a prefix of snapshot-length,
\* non-blocking, promiscuous, timeout, buffer-size, activate, filter compile,
\* filter apply (the last two only with a filter configured), each setter with
\* its Config value; the prefix stops at the first failing call, whose error is
\* returned.  On a file-replay handle no call is issued and construction
\* succeeds.
OrderedPrefix ==
    ctor.built # "new" =>
        /\ Len(CallSeq) <= ExpectedLength
        /\ \A i \in 1..Len(CallSeq) : CallSeq[i] = ExpectedOrder[i]
        /\ \A i \in 1..Len(CallSeq) :
               (CallSeq[i] \in ctor.fails) <=> (ctor.built = "failed" /\ i = Len(CallSeq))
        /\ (ctor.built = "failed" => ctor.err = CallSeq[Len(CallSeq)])
        /\ (~live_capture => ctor.built = "ok" /\ CallSeq = << >>)
        /\ \A i \in 1..Len(CallSeq) :
               /\ (CallSeq[i] = "set_snaplen" => ctor.calls[i].arg = config.snaplen)
               /\ (CallSeq[i] = "set_timeout" => ctor.calls[i].arg = config.timeout)
               /\ (CallSeq[i] = "set_buffer_size" => ctor.calls[i].arg = config.buffer_size)

\* C13 as stated: the ordered prefix, and the sequence of issued calls is
\* complete exactly when construction succeeds.
ConfigurationOrderComplete ==
    /\ OrderedPrefix
    /\ (ctor.built # "new" /\ live_capture
          => (ctor.built = "ok" <=> Len(CallSeq) = ExpectedLength))

\* C13 amended: the ordered prefix, and construction succeeds exactly when the
\* sequence of issued calls is complete and its last call did not fail.
ConfigurationOrder ==
    /\ OrderedPrefix
    /\ (ctor.built # "new" /\ live_capture
          => (ctor.built = "ok"
                <=> /\ Len(CallSeq) = ExpectedLength
                    /\ CallSeq[ExpectedLength] \notin ctor.fails))

\* Every call of a live session with a filter was issued and the last one,
\* the filter apply, failed.
ConfigurationOrderWitness ==
    /\ live_capture
    /\ config.bpf = "valid"
    /\ Len(ctor.calls) = 8
    /\ ctor.built = "failed"
    /\ ctor.err = "set_bpf"

\* C15: every packet built has a buffer as long as its captured_length, and
\* when the record has a header its captured_length and original_length are
\* those of the header.
PacketLengths ==
    decoded.state = "pushed" =>
        /\ Len(decoded.data) = decoded.captured_length
        /\ (native_rec.v \in {"ok", "nulldata"} =>
              /\ decoded.captured_length = native_rec.caplen
              /\ decoded.original_length = native_rec.len)

\* A truncated record (captured shorter than original) was decoded by the
\* trampoline.
PacketLengthsWitness ==
    /\ decoded.state = "pushed"
    /\ native_rec.via = "cb"
    /\ native_rec.v = "ok"
    /\ native_rec.caplen = 1
    /\ native_rec.len = 2

\* C18: a record whose header pointer is null is dropped, in dispatch_ex and
\* in the trampoline, whatever its data pointer.
NullHeaderDropped ==
    decoded.state # "none" /\ native_rec.v \in {"nullhdr", "bothnull"}
        => decoded.state = "dropped"

\* C20: PacketIterator::next never returns None: is_complete is false in every
\* reachable state, every call of next runs exactly one dispatch_ex cycle and
\* returns Some(outcome), also after a Complete or an Err has been yielded.
IteratorNeverNone ==
    /\ ~is_complete
    /\ \A i \in 1..Len(yielded) : yielded[i].kind = "Some"
    /\ units = Len(yielded) + (IF pc = "idle" THEN 0 ELSE 1)

\* next returned Some after it had already yielded a Complete or an Err.
IteratorNeverNoneWitness ==
    \E i \in 1..Len(yielded) :
        /\ yielded[i].kind = "Some"
        /\ yielded[i].item.kind \in {"Complete", "Err"}
        /\ \E j \in (i + 1)..Len(yielded) : yielded[j].kind = "Some"

\* C21: with max_packets_read >= 1 the accumulator never outgrows the capacity
\* 2 * max_packets_read it was created with, so no append reallocates it: in
\* dispatch_ex it holds at most max_packets_read packets, and in dispatch it
\* holds fewer than max_packets_read before each bulk call.
AccumulatorWithinCapacity ==
    max_packets_read >= 1 =>
        /\ ~reallocated
        /\ capacity \in {0, 2 * max_packets_read}
        /\ Len(packets) <= capacity
        /\ (mode = "ex" => Len(packets) <= max_packets_read)
        /\ (mode = "cb" /\ pc = "call" => Len(packets) < max_packets_read)

\* A bulk call took the accumulator of dispatch past the ceiling, up to
\* 2 * max_packets_read - 1, within its capacity.
AccumulatorWithinCapacityWitness ==
    /\ mode = "cb"
    /\ max_packets_read = 2
    /\ Len(packets) = 3
    /\ capacity = 4
    /\ ~reallocated

====
